---------------------------- MODULE Spec2Model ----------------------------
(***************************************************************************)
(* A model of the quote application: RandomNumberService.pick, the local   *)
(* and the remote QuoteService.getQuote, and QuoteComponent with its       *)
(* template (two async pipes), wired as index.ts wires them (the real XHR  *)
(* backend of HTTP_PROVIDERS).                                             *)
(***************************************************************************)
EXTENDS Integers, Sequences, FiniteSets, TLC

VARIABLES
    allQuotes,          \* QUOTE_DATA injected into QuoteService
    pickStub,           \* TRUE: RandomNumberService.pick is the spy returning 0
    constructed,        \* QuoteComponent's constructor has run
    randomQuote,        \* QuoteComponent.randomQuote
    remoteText,         \* QuoteComponent.remoteText$: the quote$ it maps (0: unset)
    remoteAttribution,  \* QuoteComponent.remoteAttribution$: the quote$ it maps
    lastCall,           \* the last local getQuote(): index, outcome, value
    pickCalls,          \* the arguments of every pick() call made by getQuote
    localCalls,         \* calls of the service's local getQuote
    remoteCalls,        \* calls of the service's remote getQuote (= quote$ made)
    randomClicks,       \* clicks on "Get a new random quote"
    remoteClicks,       \* clicks on "Get a new remote quote"
    viewError,          \* a template binding threw during change detection
    requests,           \* every XHR sent: the quote$ it is for, method, url
    textPipe,           \* the async pipe on remoteText$
    attrPipe,           \* the async pipe on remoteAttribution$
    pickTrial           \* SpecPick only: one direct call of pick(min, max)

vars == <<allQuotes, pickStub, constructed, randomQuote, remoteText,
          remoteAttribution, lastCall, pickCalls, localCalls, remoteCalls,
          randomClicks, remoteClicks, viewError, requests, textPipe,
          attrPipe, pickTrial>>

----------------------------------------------------------------------------
(* Bounds of the model. *)

MaxQuotes == 3
MaxRandomClicks == 2
MaxRemoteClicks == 2
MaxBound == 4

----------------------------------------------------------------------------
(***************************************************************************)
(* JavaScript numbers.  pick computes in IEEE 754 binary64: 53 significant *)
(* bits, round to nearest, ties to even.  A value is held exactly, as a    *)
(* sign and a magnitude counted in units of 2^-53 and split in two limbs,  *)
(* (hi * 2^27 + lo) * 2^-53, so that every intermediate result fits TLC's  *)
(* integers.  Math.random() yields k * 2^-53 with 0 <= k < 2^53 (V8 yields *)
(* the even k only); products of such values with small integers and sums  *)
(* with small integers are multiples of 2^-53 too.                         *)
(***************************************************************************)

Two26 == 2^26
Two27 == 2^27

\* The double n, for a natural number n.
FromNat(n) == [neg |-> FALSE, hi |-> n * Two26, lo |-> 0]

\* The number of low bits a magnitude with high limb hi loses when it is
\* rounded to 53 significant bits.
RECURSIVE DroppedBits(_)
DroppedBits(hi) == IF hi < Two26 THEN 0 ELSE 1 + DroppedBits(hi \div 2)

\* x rounded to the nearest double, ties to even.
RoundToDouble(x) ==
    LET s    == DroppedBits(x.hi)
        q    == 2^s
        r    == x.lo % q
        down == x.lo - r
        odd  == (down \div q) % 2 = 1
        up   == r * 2 > q \/ (r * 2 = q /\ odd)
        lo2  == IF up THEN down + q ELSE down
    IN  IF lo2 = Two27
        THEN [neg |-> x.neg, hi |-> x.hi + 1, lo |-> 0]
        ELSE [neg |-> x.neg, hi |-> x.hi, lo |-> lo2]

\* rnd * d as JavaScript computes it, for a double rnd in [0, 1) and a
\* natural number d: the exact product, rounded.
Times(rnd, d) ==
    LET p == rnd.lo * d
    IN  RoundToDouble([neg |-> FALSE,
                       hi  |-> rnd.hi * d + (p \div Two27),
                       lo  |-> p % Two27])

\* y + n as JavaScript computes it, for a double y >= 0 and an integer n:
\* the exact sum, rounded.
Plus(y, n) ==
    LET t == y.hi + n * Two26
    IN  IF t >= 0
        THEN RoundToDouble([neg |-> FALSE, hi |-> t, lo |-> y.lo])
        ELSE IF y.lo = 0
        THEN RoundToDouble([neg |-> TRUE, hi |-> -t, lo |-> 0])
        ELSE RoundToDouble([neg |-> TRUE, hi |-> -t - 1, lo |-> Two27 - y.lo])

\* Math.floor(x).
Floor(x) ==
    IF ~x.neg
    THEN x.hi \div Two26
    ELSE -((x.hi \div Two26)
           + (IF x.hi % Two26 # 0 \/ x.lo # 0 THEN 1 ELSE 0))

\* Values Math.random() can return: the least, the greatest (of a 53-bit and
\* of a 52-bit generator) and values in between.
RandomValues ==
    { [neg |-> FALSE, hi |-> h, lo |-> l] :
        h \in {0, 1, Two26 \div 3, Two26 \div 2, Two26 - 1},
        l \in {0, 1, Two27 \div 2, Two27 - 2, Two27 - 1} }

\* Math.ceil(x).
Ceil(x) ==
    IF x.neg
    THEN -(x.hi \div Two26)
    ELSE (x.hi \div Two26)
         + (IF x.hi % Two26 # 0 \/ x.lo # 0 THEN 1 ELSE 0)

\* pick with Math.ceil in the place of Math.floor.
pickCeil(min, max, rnd) == Ceil(Plus(Times(rnd, max - min), min))

\* RandomNumberService.pick with Math.random() returning rnd.
pick(min, max, rnd) == Floor(Plus(Times(rnd, max - min), min))

----------------------------------------------------------------------------
(* pick on its own: the specification SpecPick calls it with every pair    *)
(* min < max within MaxBound and every value of RandomValues.              *)

NoTrial == [min |-> 0, max |-> 0, rnd |-> FromNat(0), result |-> 0,
            called |-> FALSE]

PickCall ==
    /\ \E min \in -MaxBound..MaxBound, max \in -MaxBound..MaxBound,
          rnd \in RandomValues :
          /\ min < max
          /\ pickTrial' = [min |-> min, max |-> max, rnd |-> rnd,
                           result |-> pick(min, max, rnd), called |-> TRUE]
    /\ UNCHANGED <<allQuotes, pickStub, constructed, randomQuote, remoteText,
                   remoteAttribution, lastCall, pickCalls, localCalls,
                   remoteCalls, randomClicks, remoteClicks, viewError,
                   requests, textPipe, attrPipe>>

----------------------------------------------------------------------------
(* JavaScript values. *)

Undefined == [undefined |-> TRUE]
Null == [null |-> TRUE]

\* An array read that fails out of bounds, as a bounds-checked language's
\* would.
ArrayGetChecked(arr, i) ==
    IF i \in 0..(Len(arr) - 1)
    THEN [threw |-> FALSE, value |-> arr[i + 1]]
    ELSE [threw |-> TRUE, value |-> Undefined]

\* arr[i] of a JavaScript array: the element, or undefined when i is no index
\* of arr.  The read itself never throws.
ArrayGet(arr, i) ==
    IF i \in 0..(Len(arr) - 1)
    THEN [threw |-> FALSE, value |-> arr[i + 1]]
    ELSE [threw |-> FALSE, value |-> Undefined]

\* The outcome of evaluating a function body: a returned value or a throw.
Ok(v) == [ok |-> TRUE, value |-> v]
Throw(e) == [ok |-> FALSE, error |-> e]

----------------------------------------------------------------------------
(* The local QuoteService. *)

\* The i-th record of quote.data.ts.
LocalQuote(i) ==
    IF i = 1
    THEN [text |-> "Talk is cheap. Show me the code.",
          attribution |-> "Linus Torvalds"]
    ELSE [text |-> "quote " \o ToString(i), attribution |-> "author " \o ToString(i)]

\* The lists QUOTE_DATA is provided as: a list of quote.data.ts's records
\* (the test provides one record); the empty list is the unguarded case.
QuoteLists ==
    { [i \in 1..n |-> LocalQuote(i)] : n \in 0..MaxQuotes }

\* this.randomNumberService.pick(min, max): the real service, or the test's
\* spy, which returns 0.
PickResult(stub, min, max, rnd) == IF stub THEN 0 ELSE pick(min, max, rnd)

\* getQuote passing pick an inclusive upper bound, the list's length + 1.
getQuoteInclusive(quotes, stub, rnd) ==
    LET args  == <<0, Len(quotes) + 1>>
        index == PickResult(stub, args[1], args[2], rnd)
        read  == ArrayGet(quotes, index)
    IN  [args |-> args, index |-> index, threw |-> read.threw,
         value |-> read.value]

\* The local getQuote() with Math.random() returning rnd: the arguments it
\* passes to pick, the index it gets, and what the call does.
getQuote(quotes, stub, rnd) ==
    LET args  == <<0, Len(quotes)>>
        index == PickResult(stub, args[1], args[2], rnd)
        read  == ArrayGet(quotes, index)
    IN  [args |-> args, index |-> index, threw |-> read.threw,
         value |-> read.value]

NoCall == [args |-> <<0, 0>>, index |-> -1, threw |-> FALSE, value |-> Null]

----------------------------------------------------------------------------
(* The remote QuoteService: what http.get(...) sends and the three maps.   *)

URL == "http://quotesondesign.com/wp-json/posts"

\* search.set('filter[orderby]', 'rand'): the parameters as <<key, value>>.
Search == << <<"filter[orderby]", "rand">> >>

\* Http.get(url, {search}): the request the connection sends when its
\* response is subscribed to.
HttpGet(url, search) ==
    [method |-> "GET",
     url    |-> url \o "?" \o search[1][1] \o "=" \o search[1][2]]

\* Records of the remote API.
TestRecord == [content |-> "Testing is a good thing", title |-> "Me"]
OtherRecord == [content |-> "Simplicity is hard", title |-> "Someone"]

\* Response bodies: text that is no JSON, and the JSON text of an array of
\* records (held as the array it parses to).
NotJson == [wellFormed |-> FALSE, records |-> <<>>]
JsonOf(records) == [wellFormed |-> TRUE, records |-> records]
ResponseBodies ==
    { NotJson, JsonOf(<<>>), JsonOf(<<TestRecord>>), JsonOf(<<OtherRecord>>),
      JsonOf(<<OtherRecord, TestRecord>>) }

\* Notifications of an Observable.
Value(v) == [kind |-> "next", value |-> v]
Failed(e) == [kind |-> "error", error |-> e]
Completed == [kind |-> "complete"]

\* response => response.json(): the parsed body; text that is no JSON throws.
ResponseJson(body) ==
    IF body.wellFormed THEN Ok(body.records) ELSE Throw("SyntaxError")

\* records => records[records.length - 1].
LastRecord(records) == Ok(ArrayGet(records, Len(records) - 1).value)

\* records => records[0].
FirstRecord(records) == Ok(ArrayGet(records, 0).value)

\* A mapping that makes a Quote of undefined fields out of a missing record.
ToQuoteLenient(record) ==
    IF record = Undefined
    THEN Ok([text |-> Undefined, attribution |-> Undefined])
    ELSE Ok([text |-> record.content, attribution |-> record.title])

\* record => ({text: record.content, attribution: record.title}): reading a
\* property of undefined throws a TypeError.
ToQuote(record) ==
    IF record = Undefined
    THEN Throw("TypeError")
    ELSE Ok([text |-> record.content, attribution |-> record.title])

\* The projections of the maps: the three of the service, and quote =>
\* quote.text and quote => quote.attribution of the component.
Project(stage, v) ==
    CASE stage = "json" -> ResponseJson(v)
      [] stage = "first" -> FirstRecord(v)
      [] stage = "quote" -> ToQuote(v)
      [] stage = "text" -> Ok(v.text)
      [] stage = "attribution" -> Ok(v.attribution)

\* Observable.map: each value is projected; a projection that throws ends the
\* stream with that error, and nothing follows an error or a completion.
MapNotes(stage, notes) ==
    LET Throws(i) == notes[i].kind = "next" /\ ~Project(stage, notes[i].value).ok
        Ends(i)   == Throws(i) \/ notes[i].kind \in {"error", "complete"}
        stops     == {i \in 1..Len(notes) : Ends(i)}
        last      == IF stops = {}
                     THEN Len(notes)
                     ELSE CHOOSE i \in stops : \A j \in stops : i <= j
    IN  [i \in 1..last |->
            IF Throws(i) THEN Failed(Project(stage, notes[i].value).error)
            ELSE IF notes[i].kind = "next"
                 THEN Value(Project(stage, notes[i].value).value)
                 ELSE notes[i]]

\* What the XHR connection's response emits: on load, the response and then
\* completion; on error, an error.
OnLoad(body) == <<Value(body), Completed>>
OnError == <<Failed("TransportError")>>

\* A getQuote() that catches a failure and completes without a value.
QuoteNotesCaught(responseNotes) ==
    LET notes == MapNotes("quote", MapNotes("first", MapNotes("json", responseNotes)))
    IN  IF \E i \in 1..Len(notes) : notes[i].kind = "error"
        THEN <<Completed>>
        ELSE notes

\* What the Observable returned by the remote getQuote() emits to a
\* subscriber, given what the connection's response emits.
QuoteNotes(responseNotes) ==
    MapNotes("quote", MapNotes("first", MapNotes("json", responseNotes)))

----------------------------------------------------------------------------
(* The template: change detection and the async pipes.  An async pipe      *)
(* holds the Observable it was last given, its subscription to it (the XHR *)
(* sent for it, that XHR's status and response body, and the notifications *)
(* quote$ has delivered to it) and the latest value, which it shows.  A    *)
(* subscription the pipe has disposed of is gone: its XHR is aborted and   *)
(* delivers nothing any more.                                              *)

NoPipe == [obs |-> 0, req |-> 0, status |-> "none", body |-> NotJson,
           notes |-> <<>>, latest |-> Null]
Shown(v) == [value |-> v]

\* Subscribing to a quote$ subscribes to the connection's response, which is
\* cold: each subscription builds and sends an XHR of its own.
SendOnSubscribe(reqs, obs) ==
    Append(reqs, [obs    |-> obs,
                  method |-> HttpGet(URL, Search).method,
                  url    |-> HttpGet(URL, Search).url])

\* AsyncPipe.transform(obs): a pipe given another Observable than the one it
\* holds disposes of its subscription (aborting its XHR), subscribes to the
\* new one and shows null until a value arrives.
Transform(pipe, obs, reqs) ==
    IF pipe.obs = obs
    THEN [requests |-> reqs, pipe |-> pipe]
    ELSE LET sent == SendOnSubscribe(reqs, obs)
         IN  [requests |-> sent,
              pipe     |-> [obs |-> obs, req |-> Len(sent),
                            status |-> "pending", body |-> NotJson,
                            notes |-> <<>>, latest |-> Null]]

\* One pass of change detection over the template's bindings, in order:
\* randomQuote.text and randomQuote.attribution throw a TypeError when
\* randomQuote is undefined, and the pass ends there; otherwise the two async
\* pipes are given remoteText$ and remoteAttribution$.
DetectChanges(quote, textObs, attrObs) ==
    IF quote = Undefined
    THEN /\ viewError' = TRUE
         /\ UNCHANGED <<requests, textPipe, attrPipe>>
    ELSE LET t == Transform(textPipe, textObs, requests)
             a == Transform(attrPipe, attrObs, t.requests)
         IN  /\ viewError' = FALSE
             /\ requests' = a.requests
             /\ textPipe' = t.pipe
             /\ attrPipe' = a.pipe

----------------------------------------------------------------------------
(* QuoteComponent. *)

\* getRandomQuote(): this.randomQuote = this.quoteService.getRandomQuote().
getRandomQuote(rnd) ==
    LET call == getQuote(allQuotes, pickStub, rnd)
    IN  /\ lastCall' = call
        /\ pickCalls' = Append(pickCalls, call.args)
        /\ localCalls' = localCalls + 1
        /\ randomQuote' = IF call.threw THEN randomQuote ELSE call.value

\* A getRemoteQuote() that calls the service once for each field.
getRemoteQuoteTwice ==
    /\ remoteCalls' = remoteCalls + 2
    /\ remoteText' = remoteCalls + 1
    /\ remoteAttribution' = remoteCalls + 2

\* getRemoteQuote(): one call of the service's remote getQuote(), whose
\* Observable quote$ both fields map.
getRemoteQuote ==
    /\ remoteCalls' = remoteCalls + 1
    /\ remoteText' = remoteCalls + 1
    /\ remoteAttribution' = remoteCalls + 1

\* The constructor, and the first change detection of the bootstrap.
Constructor ==
    /\ ~constructed
    /\ constructed' = TRUE
    /\ \E rnd \in RandomValues : getRandomQuote(rnd)
    /\ getRemoteQuote
    /\ DetectChanges(randomQuote', remoteText', remoteAttribution')
    /\ UNCHANGED <<allQuotes, pickStub, randomClicks, remoteClicks, pickTrial>>

\* A click on "Get a new random quote".
ClickRandom ==
    /\ constructed
    /\ randomClicks < MaxRandomClicks
    /\ randomClicks' = randomClicks + 1
    /\ \E rnd \in RandomValues : getRandomQuote(rnd)
    /\ DetectChanges(randomQuote', remoteText, remoteAttribution)
    /\ UNCHANGED <<allQuotes, pickStub, constructed, remoteText,
                   remoteAttribution, remoteCalls, remoteClicks, pickTrial>>

\* A click on "Get a new remote quote".
ClickRemote ==
    /\ constructed
    /\ remoteClicks < MaxRemoteClicks
    /\ remoteClicks' = remoteClicks + 1
    /\ getRemoteQuote
    /\ DetectChanges(randomQuote, remoteText', remoteAttribution')
    /\ UNCHANGED <<allQuotes, pickStub, constructed, randomQuote, lastCall,
                   pickCalls, localCalls, randomClicks, pickTrial>>

\* What an async pipe shows after its subscription got these notifications
\* from quote$: the mapped field of a value; an error leaves it as it is.
Latest(pipe, field, notes) ==
    LET mapped == MapNotes(field, notes)
    IN  IF mapped # <<>> /\ mapped[1].kind = "next"
        THEN Shown(mapped[1].value)
        ELSE pipe.latest

\* The pending XHR of a pipe's subscription settles with these notifications
\* of the connection's response: the subscription gets what quote$ makes of
\* them, and the pipe shows the field it maps.
Settle(pipe, field, status, body, responseNotes) ==
    LET notes == QuoteNotes(responseNotes)
    IN  [pipe EXCEPT !.status = status, !.body = body, !.notes = notes,
                     !.latest = Latest(pipe, field, notes)]

\* The load event of a pending XHR, with a response body.
XhrLoad ==
    /\ \E body \in ResponseBodies :
          \/ /\ textPipe.status = "pending"
             /\ textPipe' = Settle(textPipe, "text", "loaded", body, OnLoad(body))
             /\ UNCHANGED attrPipe
          \/ /\ attrPipe.status = "pending"
             /\ attrPipe' = Settle(attrPipe, "attribution", "loaded", body,
                                   OnLoad(body))
             /\ UNCHANGED textPipe
    /\ UNCHANGED <<allQuotes, pickStub, constructed, randomQuote, remoteText,
                   remoteAttribution, lastCall, pickCalls, localCalls,
                   remoteCalls, randomClicks, remoteClicks, viewError,
                   requests, pickTrial>>

\* The error event of a pending XHR.
XhrError ==
    /\ \/ /\ textPipe.status = "pending"
          /\ textPipe' = Settle(textPipe, "text", "errored", NotJson, OnError)
          /\ UNCHANGED attrPipe
       \/ /\ attrPipe.status = "pending"
          /\ attrPipe' = Settle(attrPipe, "attribution", "errored", NotJson,
                                OnError)
          /\ UNCHANGED textPipe
    /\ UNCHANGED <<allQuotes, pickStub, constructed, randomQuote, remoteText,
                   remoteAttribution, lastCall, pickCalls, localCalls,
                   remoteCalls, randomClicks, remoteClicks, viewError,
                   requests, pickTrial>>

----------------------------------------------------------------------------
(* The specifications. *)

Init ==
    /\ allQuotes \in QuoteLists
    /\ pickStub \in BOOLEAN
    /\ constructed = FALSE
    /\ randomQuote = Undefined
    /\ remoteText = 0
    /\ remoteAttribution = 0
    /\ lastCall = NoCall
    /\ pickCalls = <<>>
    /\ localCalls = 0
    /\ remoteCalls = 0
    /\ randomClicks = 0
    /\ remoteClicks = 0
    /\ viewError = FALSE
    /\ requests = <<>>
    /\ textPipe = NoPipe
    /\ attrPipe = NoPipe
    /\ pickTrial = NoTrial

Next ==
    \/ Constructor
    \/ ClickRandom
    \/ ClickRemote
    \/ XhrLoad
    \/ XhrError

Spec == Init /\ [][Next]_vars

\* pick reads none of the application's state: SpecPick starts from one
\* configuration of it.
InitPick == Init /\ Len(allQuotes) = 1 /\ ~pickStub

SpecPick == InitPick /\ [][PickCall]_vars

----------------------------------------------------------------------------
(* The claims. *)

Range(seq) == {seq[i] : i \in 1..Len(seq)}
Pipes == {textPipe, attrPipe}
Count(notes, kind) == Cardinality({i \in 1..Len(notes) : notes[i].kind = kind})
RequestsOf(call) == {r \in 1..Len(requests) : requests[r].obs = call}

\* C1: for every pair of integers min < max and every value Math.random()
\* can return, pick(min, max) returns an r with min <= r < max.  (SpecPick)
C1_PickInRange ==
    pickTrial.called =>
        /\ pickTrial.min <= pickTrial.result
        /\ pickTrial.result < pickTrial.max

\* C2: for a non-empty list of length N, every index the local getQuote()
\* selects with the real pick is in 0..N-1 and every value it returns is an
\* element of the list; with pick stubbed to return 0 it returns quotes[0].
C2_LocalQuoteInList ==
    (localCalls > 0 /\ Len(allQuotes) > 0) =>
        /\ ~lastCall.threw
        /\ lastCall.index \in 0..(Len(allQuotes) - 1)
        /\ lastCall.value \in Range(allQuotes)
        /\ lastCall.value = allQuotes[lastCall.index + 1]
        /\ pickStub => lastCall.value = allQuotes[1]

C2_Witness ==
    /\ localCalls > 1
    /\ ~pickStub
    /\ Len(allQuotes) = MaxQuotes
    /\ lastCall.index = MaxQuotes - 1
    /\ randomQuote = allQuotes[MaxQuotes]

\* C3: every call of the local getQuote() on a list of length N calls pick
\* once, with the arguments (0, N); for a one-element list, pick(0, 1).
C3_PickCalledWithZeroAndLength ==
    /\ Len(pickCalls) = localCalls
    /\ \A i \in 1..Len(pickCalls) : pickCalls[i] = <<0, Len(allQuotes)>>

C3_Witness ==
    /\ Len(allQuotes) = 1
    /\ pickStub
    /\ pickCalls = << <<0, 1>> >>

\* C4: every call of the remote getQuote() issues exactly one request, a GET
\* of URL?filter[orderby]=rand, and no further one (stated of a component
\* whose template rendered).
C4_OneGetPerCall ==
    ~viewError =>
        /\ \A call \in 1..remoteCalls : Cardinality(RequestsOf(call)) = 1
        /\ \A r \in 1..Len(requests) :
              /\ requests[r].method = "GET"
              /\ requests[r].url =
                    "http://quotesondesign.com/wp-json/posts?filter[orderby]=rand"

\* C5: a response whose body is a non-empty JSON array of records yields one
\* Quote, its text the first record's content and its attribution the first
\* record's title; later records are ignored.
C5_QuoteIsFirstRecord ==
    \A p \in Pipes :
        (p.status = "loaded" /\ p.body.wellFormed /\ p.body.records # <<>>) =>
            p.notes = <<Value([text        |-> p.body.records[1].content,
                               attribution |-> p.body.records[1].title]),
                        Completed>>

C5_Witness ==
    /\ textPipe.status = "loaded"
    /\ textPipe.body = JsonOf(<<TestRecord>>)
    /\ textPipe.notes[1] = Value([text |-> "Testing is a good thing",
                                  attribution |-> "Me"])
    /\ attrPipe.status = "loaded"
    /\ attrPipe.body = JsonOf(<<OtherRecord, TestRecord>>)
    /\ attrPipe.latest = Shown("Someone")

\* C6: a response whose body is an empty array makes the Observable fail; no
\* value, undefined or of undefined fields, is delivered.
C6_EmptyArrayFails ==
    \A p \in Pipes :
        (p.status = "loaded" /\ p.body = JsonOf(<<>>)) =>
            /\ p.notes = <<Failed("TypeError")>>
            /\ p.latest = Null

C6_Witness ==
    /\ textPipe.status = "loaded"
    /\ textPipe.body = JsonOf(<<>>)
    /\ attrPipe.status = "loaded"
    /\ attrPipe.latest = Shown("Me")

\* C7: a subscriber of the Observable of one remote getQuote() receives
\* nothing while the request is pending and, once it has settled, exactly one
\* outcome, a Quote or a failure, never both and never two values; a
\* transport error reaches it as that failure.
C7_OneOutcome ==
    \A p \in Pipes :
        /\ Count(p.notes, "next") <= 1
        /\ Count(p.notes, "error") <= 1
        /\ ~(Count(p.notes, "next") = 1 /\ Count(p.notes, "error") = 1)
        /\ p.status \in {"none", "pending"} => p.notes = <<>>
        /\ p.status \in {"loaded", "errored"} =>
              Count(p.notes, "next") + Count(p.notes, "error") = 1
        /\ p.status = "errored" => p.notes = <<Failed("TransportError")>>

C7_Witness ==
    /\ textPipe.status = "errored"
    /\ textPipe.notes = <<Failed("TransportError")>>
    /\ attrPipe.status = "loaded"
    /\ Count(attrPipe.notes, "next") = 1

\* C8: QuoteComponent calls the service once for each kind of quote in its
\* constructor and once more for each click of that kind's button, each time
\* assigning the result to its fields; no other event calls the service.
C8_OneCallPerConstructionAndClick ==
    /\ localCalls = (IF constructed THEN 1 ELSE 0) + randomClicks
    /\ remoteCalls = (IF constructed THEN 1 ELSE 0) + remoteClicks
    /\ constructed =>
          /\ randomQuote = lastCall.value
          /\ remoteText = remoteCalls
          /\ remoteAttribution = remoteCalls

C8_Witness ==
    /\ constructed
    /\ randomClicks = 1
    /\ remoteClicks = 1
    /\ localCalls = 2
    /\ remoteCalls = 2
    /\ textPipe.status = "loaded"
    /\ attrPipe.status = "errored"

\* C9, as claimed: a local getQuote() on an empty list fails (out of bounds)
\* and returns no value to its caller.
C9_EmptyListFails ==
    (localCalls > 0 /\ Len(allQuotes) = 0) => lastCall.threw

\* C9, amended: a local getQuote() on an empty list calls pick(0, 0), gets
\* index 0 and returns undefined to its caller, raising no failure.
C9_EmptyListReturnsUndefined ==
    (localCalls > 0 /\ Len(allQuotes) = 0) =>
        /\ lastCall.args = <<0, 0>>
        /\ lastCall.index = 0
        /\ ~lastCall.threw
        /\ lastCall.value = Undefined
        /\ randomQuote = Undefined

C9_Witness ==
    /\ localCalls > 1
    /\ Len(allQuotes) = 0
    /\ ~pickStub
    /\ lastCall.value = Undefined

\* C10: the text and the attribution the component shows are those of one
\* Quote record: never the text of one response with the attribution of
\* another.
C10_TextAndAttributionOfOneQuote ==
    (textPipe.latest # Null /\ attrPipe.latest # Null) =>
        \E record \in {TestRecord, OtherRecord} :
            /\ textPipe.latest = Shown(record.content)
            /\ attrPipe.latest = Shown(record.title)

=============================================================================
